---------------------------- MODULE Spec2Model ----------------------------
(***************************************************************************)
(* A model of the eurostat-downloader: main reads a tab-separated manifest *)
(* (parser.rs), Downloader::download_all expands it into download tasks,   *)
(* runs them in groups of `parallelism` concurrent transfers               *)
(* (download_file), joins each group, reduces the reports to a summary,    *)
(* writes the statistics file and returns; main turns the summary into the *)
(* process exit status.                                                    *)
(*                                                                         *)
(* A file's content is kept byte by byte, each byte tagged with the        *)
(* transfer that wrote it and its place in that transfer's response body.  *)
(* Rate-limit delays are kept in nanoseconds, the resolution of Duration.  *)
(*                                                                         *)
(* Not modelled: wall-clock durations, progress bars, log lines and the    *)
(* text of the statistics rows.                                            *)
(***************************************************************************)
EXTENDS Integers, Sequences, FiniteSets, TLC

VARIABLES
    file,         \* the input file: [status, records], records a sequence of rows
    parallelism,  \* Cli::parallelism (a usize)
    rate_limit,   \* Cli::rate_limit (an Option<u64>): [some, v]
    fs,           \* the output directory: [dir, made, files], does it exist, its files
    pc,           \* where main / download_all stands
    inventory,    \* the entries parse_tsv returned (Ok), <<>> before and on Err
    parse_err,    \* the error parse_tsv returned, NoError otherwise
    tasks,        \* download_all: `tasks`
    chunks,       \* download_all: `chunks`, the groups still to run and run
    cur,          \* download_all: index of the group the for loop is at
    xfer,         \* per task: the position of its download_file future
    out,          \* per task: the DownloadReport its future returned, or NoReport
    order,        \* the futures of the group at hand in the order they returned
    reports,      \* download_all: `reports`
    summary,      \* download_all: `summary`, NoSummary before it is built
    stats,        \* outcome of write_stats_csv: "none", "written" or an error kind
    result,       \* what download_all returned to main, NoResult before
    exit          \* the process exit status: "none", "ok", "err", "panic"

vars == <<file, parallelism, rate_limit, fs, pc, inventory, parse_err, tasks, chunks, cur,
          xfer, out, order, reports, summary, stats, result, exit>>

-----------------------------------------------------------------------------
(* Bounds of the model.                                                    *)

\* most records (lines) in the input file, the header line included
MaxRecords == 3
\* largest value of --parallelism
MaxPar == 3
\* most chunks one response body is split into
MaxChunks == 1
\* largest chunk, in bytes
MaxChunkSize == 2

-----------------------------------------------------------------------------
(* Values.                                                                 *)

NoUrl     == "None"       \* Option<String>::None
NoError   == "NoError"
NoReport  == [none |-> TRUE]
NoSummary == [none |-> TRUE]
NoResult  == [none |-> TRUE]

\* manifest columns, 1-based here (record.get(k - 1) in the source)
ColCode      == 1
ColType      == 2
ColTsv       == 6
ColCsv       == 7
ColSdmx      == 8
ColStructure == 9
ColBrowser   == 10
NumCols      == 10

UrlCols == {ColTsv, ColCsv, ColSdmx, ColStructure, ColBrowser}

ColName(c) ==
    CASE c = ColTsv -> "tsv"
      [] c = ColCsv -> "csv"
      [] c = ColSdmx -> "sdmx"
      [] c = ColStructure -> "structure"
      [] c = ColBrowser -> "browser"

\* the URL a row of dataset `code` carries in column c
Url(code, c) == "http://h/" \o code \o "/" \o ColName(c)

\* a full manifest line for dataset `code` with the URL columns in `present` filled
Row(code, present) ==
    [c \in 1..NumCols |->
        IF c = ColCode THEN code
        ELSE IF c = ColType THEN "t"
        ELSE IF c \in UrlCols THEN (IF c \in present THEN Url(code, c) ELSE "")
        ELSE "x"]

\* the line cut after its first n fields (missing trailing columns)
Truncate(row, n) == SubSeq(row, 1, n)

\* a header line: column names
HeaderRow == [c \in 1..NumCols |-> "name"]


-----------------------------------------------------------------------------
(* parser.rs: parse_tsv.                                                   *)

\* record.get(c - 1).unwrap_or("")
Field(record, c) == IF c <= Len(record) THEN record[c] ELSE ""

\* (mutant) an empty field is kept as Some("")
NonEmpty_Keep(s) == s

\* Some(s).filter(|s| !s.is_empty())
NonEmpty(s) == IF s = "" THEN NoUrl ELSE s

\* the InventoryEntry built from one record
Entry(record) ==
    [code                   |-> Field(record, 1),
     entry_type             |-> Field(record, 2),
     source_dataset         |-> Field(record, 3),
     last_data_change       |-> Field(record, 4),
     last_structural_change |-> Field(record, 5),
     tsv_url                |-> NonEmpty(Field(record, ColTsv)),
     csv_url                |-> NonEmpty(Field(record, ColCsv)),
     sdmx_url               |-> NonEmpty(Field(record, ColSdmx)),
     structure_url          |-> NonEmpty(Field(record, ColStructure)),
     browser_url            |-> NonEmpty(Field(record, ColBrowser))]

\* (mutant) has_headers(false): the first record is data
HasHeaders_Off == FALSE

\* ReaderBuilder::new() keeps the csv crate's defaults: has_headers(true), so
\* records() starts after the first record, and flexible(false), so a record
\* whose field count differs from the first record's is an error.
HasHeaders == TRUE

\* the for loop over reader.records() from record k on: the entries, or the
\* first error (the ? operator leaves the function at once)
RECURSIVE ReadRecords(_, _, _)
ReadRecords(records, k, entries) ==
    IF k > Len(records) THEN [ok |-> TRUE, entries |-> entries, err |-> NoError]
    ELSE IF Len(records[k]) # Len(records[1])
         THEN [ok |-> FALSE, entries |-> <<>>, err |-> "ParseError"]
         ELSE ReadRecords(records, k + 1, Append(entries, Entry(records[k])))

parse_tsv(f) ==
    IF f.status # "ok"
    THEN [ok |-> FALSE, entries |-> <<>>, err |-> "IoError"]
    ELSE ReadRecords(f.records, IF HasHeaders THEN 2 ELSE 1, <<>>)

-----------------------------------------------------------------------------
(* downloader.rs: the Task Builder.                                        *)

OutputDir == "out"

Extension(format) ==
    CASE format = "TSV" -> "tsv"
      [] format = "CSV" -> "csv"
      [] format = "SDMX" -> "sdmx"

create_task(entry, url, output_dir, format) ==
    [entry       |-> entry,
     url         |-> url,
     output_path |-> output_dir \o "/" \o entry.code \o "_" \o entry.entry_type
                        \o "." \o Extension(format),
     format      |-> format]

\* (mutant) the CSV URL is looked at before the TSV URL
EntryTasks_CsvFirst(entry, output_dir) ==
    (IF entry.csv_url # NoUrl
        THEN <<create_task(entry, entry.csv_url, output_dir, "CSV")>> ELSE <<>>)
    \o (IF entry.tsv_url # NoUrl
        THEN <<create_task(entry, entry.tsv_url, output_dir, "TSV")>> ELSE <<>>)
    \o (IF entry.sdmx_url # NoUrl
        THEN <<create_task(entry, entry.sdmx_url, output_dir, "SDMX")>> ELSE <<>>)

\* the body of the for loop of create_download_tasks: the tasks of one entry
EntryTasks(entry, output_dir) ==
    (IF entry.tsv_url # NoUrl
        THEN <<create_task(entry, entry.tsv_url, output_dir, "TSV")>> ELSE <<>>)
    \o (IF entry.csv_url # NoUrl
        THEN <<create_task(entry, entry.csv_url, output_dir, "CSV")>> ELSE <<>>)
    \o (IF entry.sdmx_url # NoUrl
        THEN <<create_task(entry, entry.sdmx_url, output_dir, "SDMX")>> ELSE <<>>)

RECURSIVE create_download_tasks(_, _)
create_download_tasks(inv, output_dir) ==
    IF inv = <<>> THEN <<>>
    ELSE EntryTasks(Head(inv), output_dir)
            \o create_download_tasks(Tail(inv), output_dir)

-----------------------------------------------------------------------------
(* downloader.rs: the Scheduler's grouping.                                *)

\* (mutant) groups one task larger than asked for
RECURSIVE SliceChunks_OneMore(_, _)
SliceChunks_OneMore(s, n) ==
    IF Len(s) = 0 THEN <<>>
    ELSE IF Len(s) <= n + 1 THEN <<s>>
    ELSE <<SubSeq(s, 1, n + 1)>> \o SliceChunks_OneMore(SubSeq(s, n + 2, Len(s)), n)

\* (mutant) chunks_exact: the tasks left over after the last full group are
\* dropped
RECURSIVE SliceChunks_DropRemainder(_, _)
SliceChunks_DropRemainder(s, n) ==
    IF Len(s) < n THEN <<>>
    ELSE <<SubSeq(s, 1, n)>> \o SliceChunks_DropRemainder(SubSeq(s, n + 1, Len(s)), n)

\* slice::chunks(n) for n > 0 (it panics for n = 0)
RECURSIVE SliceChunks(_, _)
SliceChunks(s, n) ==
    IF Len(s) = 0 THEN <<>>
    ELSE IF Len(s) <= n THEN <<s>>
    ELSE <<SubSeq(s, 1, n)>> \o SliceChunks(SubSeq(s, n + 1, Len(s)), n)

\* number of futures created for the groups before group g
RECURSIVE Offset(_, _)
Offset(cs, g) == IF g <= 1 THEN 0 ELSE Offset(cs, g - 1) + Len(cs[g - 1])

\* the futures (by number, in creation order) of group g
Handles(cs, g) == (Offset(cs, g) + 1)..(Offset(cs, g) + Len(cs[g]))

\* the group a future belongs to, and the task it was created for
GroupOf(cs, h) == CHOOSE g \in 1..Len(cs) : h \in Handles(cs, g)
TaskOf(cs, h)  == cs[GroupOf(cs, h)][h - Offset(cs, GroupOf(cs, h))]

-----------------------------------------------------------------------------
(* The inputs of a run.                                                    *)

\* the lines a run's manifest is made of: a dataset with two downloadable
\* URLs, one with a single URL, one with informational URLs only, and a line
\* with missing trailing columns
RunRows ==
    { Row("a", {ColCsv, ColSdmx, ColBrowser}),
      Row("b", {ColTsv}),
      Row("a", {ColStructure, ColBrowser}),
      Truncate(Row("b", {ColTsv}), ColTsv) }

\* the first line of a manifest: column names, or already a data line
FirstRows ==
    {HeaderRow, Truncate(HeaderRow, ColTsv), Row("a", {ColTsv, ColCsv, ColSdmx})}

\* sequences over S of length at most n
SeqUpTo(S, n) == UNION {[1..k -> S] : k \in 0..n}

Files(rows) ==
    { [status |-> st, records |-> <<>>] : st \in {"ok", "missing", "not_utf8"} }
    \cup { [status |-> "ok", records |-> <<first>> \o rest] :
              first \in FirstRows, rest \in SeqUpTo(rows, MaxRecords - 1) }

\* Option<u64>: None, Some(v)
NoRate     == [some |-> FALSE, v |-> 0]
SomeRate(v) == [some |-> TRUE, v |-> v]

\* the values of --rate-limit: absent, 0 and 3 bytes per second
RateLimits == {NoRate, SomeRate(0), SomeRate(3)}

\* a run is made without a rate limit, or with the limit 0
RunRates == {NoRate, SomeRate(0)}

-----------------------------------------------------------------------------
(* The state after construction: the command line is parsed, nothing ran.  *)

InitWith(files, rates) ==
    /\ file \in files
    /\ parallelism \in 0..MaxPar
    /\ rate_limit \in rates
    /\ fs \in {[dir |-> d, made |-> FALSE, files |-> <<>>] : d \in BOOLEAN}
    /\ pc = "parse"
    /\ inventory = <<>>
    /\ parse_err = NoError
    /\ tasks = <<>>
    /\ chunks = <<>>
    /\ cur = 0
    /\ xfer = <<>>
    /\ out = <<>>
    /\ order = <<>>
    /\ reports = <<>>
    /\ summary = NoSummary
    /\ stats = "none"
    /\ result = NoResult
    /\ exit = "none"

Init == InitWith(Files(RunRows), RunRates)

-----------------------------------------------------------------------------
(* main.rs: parsing the manifest.                                          *)

\* (mutant) a parse error is logged and the run goes on with no entries
MainParse_LogAndContinue ==
    /\ pc = "parse"
    /\ LET r == parse_tsv(file) IN
         /\ inventory' = r.entries
         /\ parse_err' = r.err
         /\ pc' = "create_tasks"
    /\ UNCHANGED <<file, parallelism, rate_limit, fs, tasks, chunks, cur, xfer, out, order,
                   reports, summary, stats, result, exit>>

\* main, lines 20-33: Ok(inv) goes on to the downloader, Err(e) returns Err
MainParse ==
    /\ pc = "parse"
    /\ LET r == parse_tsv(file) IN
         IF r.ok
         THEN /\ inventory' = r.entries
              /\ pc' = "create_tasks"
              /\ UNCHANGED <<parse_err, exit>>
         ELSE /\ parse_err' = r.err
              /\ pc' = "exit"
              /\ exit' = "err"
              /\ UNCHANGED inventory
    /\ UNCHANGED <<file, parallelism, rate_limit, fs, tasks, chunks, cur, xfer, out, order,
                   reports, summary, stats, result>>

-----------------------------------------------------------------------------
(* downloader.rs: download_all.                                            *)

\* lines 32-35: the task list and the empty report list
CreateTasks ==
    /\ pc = "create_tasks"
    /\ tasks' = create_download_tasks(inventory, OutputDir)
    /\ reports' = <<>>
    /\ pc' = "partition"
    /\ UNCHANGED <<file, parallelism, rate_limit, fs, inventory, parse_err, chunks, cur, xfer,
                   out, order, summary, stats, result, exit>>

\* a download_file future that was created and not polled yet
\* pc: where the future stands; downloaded: the local `downloaded`; nchunks:
\* chunks written; http: the response status (0: none yet); received,
\* rx_bytes: chunks and bytes taken from the stream; pos: the cursor of the
\* open file; sleeps, delay_ns: the rate-limit sleeps taken and their sum
Idle == [pc |-> "idle", downloaded |-> 0, nchunks |-> 0, http |-> 0,
         received |-> 0, rx_bytes |-> 0, pos |-> 0, sleeps |-> 0, delay_ns |-> 0]

\* line 37: tasks.chunks(self.parallelism); chunks(0) panics
Partition ==
    /\ pc = "partition"
    /\ IF parallelism = 0
       THEN /\ pc' = "exit"
            /\ exit' = "panic"
            /\ UNCHANGED <<chunks, cur, xfer, out>>
       ELSE LET cs == SliceChunks(tasks, parallelism)
                n  == Offset(cs, Len(cs) + 1)
            IN  /\ chunks' = cs
                /\ cur' = 1
                /\ xfer' = [h \in 1..n |-> Idle]
                /\ out' = [h \in 1..n |-> NoReport]
                /\ pc' = "loop"
                /\ UNCHANGED exit
    /\ UNCHANGED <<file, parallelism, rate_limit, fs, inventory, parse_err, tasks, order,
                   reports, summary, stats, result>>

\* lines 39-49: the futures of the group at hand are created and join_all polls
\* each of them once, in order: every transfer of the group sends its request
StartGroup ==
    /\ pc = "loop"
    /\ cur <= Len(chunks)
    /\ xfer' = [h \in DOMAIN xfer |->
                  IF h \in Handles(chunks, cur)
                  THEN [xfer[h] EXCEPT !.pc = "send"] ELSE xfer[h]]
    /\ order' = <<>>
    /\ pc' = "join"
    /\ UNCHANGED <<file, parallelism, rate_limit, fs, inventory, parse_err, tasks, chunks, cur,
                   out, reports, summary, stats, result, exit>>

-----------------------------------------------------------------------------
(* downloader.rs: download_file, one action per suspension point.          *)

\* the HTTP statuses a server answers with
Statuses == {200, 404}

\* (mutant) every status counts as a success
IsSuccess_Any(status) == TRUE

\* StatusCode::is_success
IsSuccess(status) == 200 <= status /\ status < 300

NoTaskError      == [kind |-> "None", status |-> 0, url |-> ""]
RequestError     == [kind |-> "RequestError", status |-> 0, url |-> ""]
IoError          == [kind |-> "IoError", status |-> 0, url |-> ""]
StreamError      == [kind |-> "DownloadError", status |-> 0, url |-> ""]
\* DownloadError("HTTP error: {status} for URL: {url}")
HttpError(status, url) == [kind |-> "DownloadError", status |-> status, url |-> url]

\* (mutant) the report of a failed transfer carries no error text
Report_NoText(task, downloaded, res) ==
    [task             |-> task,
     status           |-> IF res = NoTaskError THEN "Success" ELSE "Failed",
     bytes_downloaded |-> downloaded,
     error            |-> NoTaskError]

\* lines 138-158: the report of a transfer whose async block ended with `res`
\* (NoTaskError for Ok(()))
Report(task, downloaded, res) ==
    [task             |-> task,
     status           |-> IF res = NoTaskError THEN "Success" ELSE "Failed",
     bytes_downloaded |-> downloaded,
     error            |-> res]

\* the future h, its locals being x, returns its report to join_all
FinishWith(h, x, res) ==
    /\ out' = [out EXCEPT ![h] = Report(TaskOf(chunks, h), x.downloaded, res)]
    /\ xfer' = [xfer EXCEPT ![h] = [x EXCEPT !.pc = "returned"]]
    /\ order' = Append(order, h)

\* the future h returns its report to join_all
Finish(h, res) == FinishWith(h, xfer[h], res)

Polled(h) == pc = "join" /\ h \in DOMAIN xfer

AllHandles == DOMAIN xfer

\* the transfer was started: its future was polled, its request sent
Started(h) == xfer[h].pc # "idle"

\* the transfer produced its report
Reported(h) == out[h] # NoReport

\* the transfers started and not yet reported
InFlight == {h \in AllHandles : Started(h) /\ ~Reported(h)}

\* lines 90-102: the response of client.get(url).send() arrives
download_file_send(h) ==
    /\ Polled(h)
    /\ xfer[h].pc = "send"
    /\ \/ Finish(h, RequestError)
       \/ \E status \in Statuses :
            LET x == [xfer[h] EXCEPT !.http = status]
            IN  IF IsSuccess(status)
                THEN /\ xfer' = [xfer EXCEPT ![h] = [x EXCEPT !.pc = "create"]]
                     /\ UNCHANGED <<out, order>>
                ELSE FinishWith(h, x, HttpError(status, TaskOf(chunks, h).url))
    /\ UNCHANGED <<file, parallelism, rate_limit, fs, pc, inventory, parse_err, tasks, chunks,
                   cur, reports, summary, stats, result, exit>>

\* a byte of no transfer: the gap a write past the end of a file leaves
Hole == <<0, 0>>

\* does a file exist at `path`
Exists(f, path) == path \in DOMAIN f.files

\* (mutant) opening a file creates the missing directories of its path
CanCreate_Parents(f, path) == TRUE

\* File::create makes the file, never the directory it is in
CanCreate(f, path) == f.dir

\* (mutant) an existing file is opened as it is
Truncated_Keep(f, path) == IF Exists(f, path) THEN f.files[path] ELSE <<>>

\* File::create: the content of the file just opened (an existing file is
\* truncated)
Truncated(f, path) == <<>>

\* the file system after File::create(path)
Create(f, path) ==
    [f EXCEPT !.files = (path :> Truncated(f, path)) @@ f.files]

\* the content after `bytes` are written at offset `pos`
WriteAt(content, pos, bytes) ==
    LET end == IF pos + Len(bytes) > Len(content)
               THEN pos + Len(bytes) ELSE Len(content)
    IN  [i \in 1..end |->
            IF pos < i /\ i <= pos + Len(bytes) THEN bytes[i - pos]
            ELSE IF i <= Len(content) THEN content[i]
            ELSE Hole]

\* the file system after write_all(bytes) on a handle at offset `pos`
Write(f, path, pos, bytes) ==
    [f EXCEPT !.files = (path :> WriteAt(f.files[path], pos, bytes)) @@ f.files]

\* lines 104-111: File::create(&task.output_path) returns
download_file_create(h) ==
    /\ Polled(h)
    /\ xfer[h].pc = "create"
    /\ \/ /\ Finish(h, IoError)
          /\ UNCHANGED fs
       \/ /\ CanCreate(fs, TaskOf(chunks, h).output_path)
          /\ fs' = Create(fs, TaskOf(chunks, h).output_path)
          /\ xfer' = [xfer EXCEPT ![h].pc = "stream"]
          /\ UNCHANGED <<out, order>>
    /\ UNCHANGED <<file, parallelism, rate_limit, pc, inventory, parse_err, tasks, chunks,
                   cur, reports, summary, stats, result, exit>>

NanosPerSec == 1000000000

\* Duration::from_secs_f64(size as f64 / rate as f64), for rate > 0, in
\* nanoseconds: the quotient cut or rounded to a whole nanosecond (the
\* conversion rounds to nearest in current toolchains and truncated in older
\* ones). Computed without a product above 2^31.
Delays(size, rate) ==
    LET whole == size * (NanosPerSec \div rate)
        part  == size * (NanosPerSec % rate)
        floor == whole + (part \div rate)
        near  == IF 2 * (part % rate) >= rate THEN floor + 1 ELSE floor
    IN  {floor, near}

\* lines 113-115: stream.next() gave a chunk of `size` bytes
Received(x, size) ==
    [x EXCEPT !.received = @ + 1, !.rx_bytes = @ + size]

\* lines 116-124: the sleep of `delay` nanoseconds is over
Slept(x, delay) ==
    [x EXCEPT !.sleeps = @ + 1, !.delay_ns = @ + delay]

\* (mutant) the chunk is counted before it is written
WriteFailed_Counted(x, size) == [x EXCEPT !.downloaded = @ + size]

\* lines 126-128: write_all failed, `?` leaves the block before line 130
WriteFailed(x, size) == x

\* lines 126-130: write_all succeeded, then downloaded += chunk.len()
Written(x, size) ==
    [x EXCEPT !.pos = @ + size, !.downloaded = @ + size, !.nchunks = @ + 1]

\* the bytes of the chunk that follows the rx bytes received before it
ChunkBytes(h, rx, size) == [i \in 1..size |-> <<h, rx + i>>]

\* lines 126-133: the chunk is written at the cursor of h's handle and counted,
\* or the write fails; x holds h's locals when write_all is called
download_file_write(h, x, size) ==
    \/ /\ FinishWith(h, WriteFailed(x, size), IoError)
       /\ UNCHANGED fs
    \/ /\ fs' = Write(fs, TaskOf(chunks, h).output_path, x.pos,
                      ChunkBytes(h, xfer[h].rx_bytes, size))
       /\ xfer' = [xfer EXCEPT ![h] = Written(x, size)]
       /\ UNCHANGED <<out, order>>

\* lines 113-136: one turn of the while loop: stream.next() gives the end of
\* the body, an error, or a chunk that is (after the rate-limit sleep) written
\* and counted. A rate limit of 0 makes the quotient infinite, and
\* Duration::from_secs_f64 panics on it.
download_file_chunk(h) ==
    /\ Polled(h)
    /\ xfer[h].pc = "stream"
    /\ \/ /\ Finish(h, NoTaskError)
          /\ UNCHANGED <<fs, pc, exit>>
       \/ /\ Finish(h, StreamError)
          /\ UNCHANGED <<fs, pc, exit>>
       \/ /\ xfer[h].nchunks < MaxChunks
          /\ \E size \in 1..MaxChunkSize :
               LET x == Received(xfer[h], size)
               IN  IF ~rate_limit.some
                   THEN /\ download_file_write(h, x, size)
                        /\ UNCHANGED <<pc, exit>>
                   ELSE IF rate_limit.v = 0
                   THEN /\ xfer' = [xfer EXCEPT ![h] = x]
                        /\ pc' = "exit"
                        /\ exit' = "panic"
                        /\ UNCHANGED <<fs, out, order>>
                   ELSE /\ \E delay \in Delays(size, rate_limit.v) :
                             download_file_write(h, Slept(x, delay), size)
                        /\ UNCHANGED <<pc, exit>>
    /\ UNCHANGED <<file, parallelism, rate_limit, inventory, parse_err, tasks, chunks,
                   cur, reports, summary, stats, result>>

\* (mutant) ready as soon as one future has returned, as a select would be
JoinReady_Any(handles) == \E h \in handles : out[h] # NoReport

\* futures::future::join_all: ready when every future has returned
JoinReady(handles) == \A h \in handles : out[h] # NoReport

\* (mutant) the outputs in completion order, as a FuturesUnordered gives them
join_all_Unordered(handles) == [k \in 1..Len(order) |-> out[order[k]]]

\* futures::future::join_all: the outputs in the order of the futures given
join_all(handles) ==
    LET first == CHOOSE h \in handles : \A k \in handles : h <= k
    IN  [k \in 1..Cardinality(handles) |-> out[first + k - 1]]

\* (mutant) try_join_all: the first failed transfer ends the join, and
\* download_all returns its error at once
JoinGroup_FailFast ==
    /\ pc = "join"
    /\ IF \E h \in Handles(chunks, cur) : Reported(h) /\ out[h].status = "Failed"
       THEN /\ result' = [ok |-> FALSE, summary |-> NoSummary]
            /\ pc' = "returned"
            /\ UNCHANGED <<reports, cur>>
       ELSE /\ JoinReady(Handles(chunks, cur))
            /\ reports' = reports \o join_all(Handles(chunks, cur))
            /\ cur' = cur + 1
            /\ pc' = "loop"
            /\ UNCHANGED result
    /\ UNCHANGED <<file, parallelism, rate_limit, fs, inventory, parse_err, tasks, chunks, xfer,
                   out, order, summary, stats, exit>>

\* lines 49-50: join_all(handles).await returns, reports.extend(chunk_results)
JoinGroup ==
    /\ pc = "join"
    /\ JoinReady(Handles(chunks, cur))
    /\ reports' = reports \o join_all(Handles(chunks, cur))
    /\ cur' = cur + 1
    /\ pc' = "loop"
    /\ UNCHANGED <<file, parallelism, rate_limit, fs, inventory, parse_err, tasks, chunks, xfer,
                   out, order, summary, stats, result, exit>>

-----------------------------------------------------------------------------
(* downloader.rs: the Aggregator.                                          *)

\* reports.iter().filter(|r| r.status == DownloadStatus::Success).count()
RECURSIVE CountSuccess(_)
CountSuccess(rs) ==
    IF rs = <<>> THEN 0
    ELSE (IF Head(rs).status = "Success" THEN 1 ELSE 0) + CountSuccess(Tail(rs))

\* (mutant) the byte total counts the successful reports only
RECURSIVE SumBytes_SuccessOnly(_)
SumBytes_SuccessOnly(rs) ==
    IF rs = <<>> THEN 0
    ELSE (IF Head(rs).status = "Success" THEN Head(rs).bytes_downloaded ELSE 0)
            + SumBytes_SuccessOnly(Tail(rs))

\* reports.iter().map(|r| r.bytes_downloaded).sum()
RECURSIVE SumBytes(_)
SumBytes(rs) ==
    IF rs = <<>> THEN 0 ELSE Head(rs).bytes_downloaded + SumBytes(Tail(rs))

\* lines 54-70
Summarize(rs) ==
    LET total_downloads      == Len(rs)
        successful_downloads == CountSuccess(rs)
    IN  [total_downloads        |-> total_downloads,
         successful_downloads   |-> successful_downloads,
         failed_downloads       |-> total_downloads - successful_downloads,
         total_bytes_downloaded |-> SumBytes(rs),
         reports                |-> rs]

\* lines 53-70: the for loop is over, the summary is built
Aggregate ==
    /\ pc = "loop"
    /\ cur > Len(chunks)
    /\ summary' = Summarize(reports)
    /\ order' = <<>>
    /\ pc' = "write_stats"
    /\ UNCHANGED <<file, parallelism, rate_limit, fs, inventory, parse_err, tasks, chunks, cur,
                   xfer, out, reports, stats, result, exit>>

\* what write_stats_csv can return: Ok ("written"), an IoError (create_dir_all,
\* flush) or a CsvError (from_path, write_record)
StatsOutcomes == {"written", "IoError", "CsvError"}

\* the steps of write_stats_csv that can fail, in order, and "none"
StatsSteps == {"create_dir_all", "from_path", "write_record", "flush", "none"}

\* the Result of write_stats_csv when `step` fails
StatsOutcome(step) ==
    CASE step = "create_dir_all" -> "IoError"
      [] step = "from_path"      -> "CsvError"
      [] step = "write_record"   -> "CsvError"
      [] step = "flush"          -> "IoError"
      [] step = "none"           -> "written"

\* the output directory after write_stats_csv when `step` fails: create_dir_all
\* (line 222) makes it when it is missing; `made` records that it was made here
StatsFs(f, step) ==
    IF step = "create_dir_all" THEN f
    ELSE [f EXCEPT !.dir = TRUE, !.made = ~f.dir]

\* (mutant) the Err of write_stats_csv is passed on with `?`
download_all_return_Propagate(sum, stats_outcome) ==
    IF stats_outcome = "written"
    THEN [ok |-> TRUE, summary |-> sum]
    ELSE [ok |-> FALSE, summary |-> NoSummary]

\* lines 72-76: an Err of write_stats_csv is logged; Ok(summary) either way
download_all_return(sum, stats_outcome) == [ok |-> TRUE, summary |-> sum]

\* lines 72-76 and 221-263: the statistics file is written, download_all returns
WriteStats ==
    /\ pc = "write_stats"
    /\ \E step \in StatsSteps :
         /\ step = "create_dir_all" => ~fs.dir
         /\ stats' = StatsOutcome(step)
         /\ fs' = StatsFs(fs, step)
         /\ result' = download_all_return(summary, StatsOutcome(step))
    /\ pc' = "returned"
    /\ UNCHANGED <<file, parallelism, rate_limit, inventory, parse_err, tasks, chunks, cur,
                   xfer, out, order, reports, summary, exit>>

-----------------------------------------------------------------------------
(* main.rs: the exit status.                                               *)

\* (mutant) an error exit only when nothing succeeded
main_exit_AnySuccess(res) ==
    IF res.ok
    THEN (IF res.summary.failed_downloads > 0 /\ res.summary.successful_downloads = 0
          THEN "err" ELSE "ok")
    ELSE "err"

\* lines 36-89: the match on download_all's result
main_exit(res) ==
    IF res.ok
    THEN (IF res.summary.failed_downloads > 0 THEN "err" ELSE "ok")
    ELSE "err"

MainExit ==
    /\ pc = "returned"
    /\ exit' = main_exit(result)
    /\ pc' = "exit"
    /\ UNCHANGED <<file, parallelism, rate_limit, fs, inventory, parse_err, tasks, chunks, cur,
                   xfer, out, order, reports, summary, stats, result>>

-----------------------------------------------------------------------------
(* The specifications.                                                     *)

\* one step of the download_file future h
download_file(h) ==
    \/ download_file_send(h)
    \/ download_file_create(h)
    \/ download_file_chunk(h)

Transfer == \E h \in DOMAIN xfer : download_file(h)

Next ==
    \/ MainParse
    \/ CreateTasks
    \/ Partition
    \/ StartGroup
    \/ Transfer
    \/ JoinGroup
    \/ Aggregate
    \/ WriteStats
    \/ MainExit

\* a run of the program on a small manifest
Spec == Init /\ [][Next]_vars

\* the same, every pending step (network, file, scheduler) eventually returning
FairSpec == Spec /\ WF_vars(Next)

\* the manifest lines the Task Builder is checked on: every choice of filled
\* URL columns, whole or cut after the TSV column, and two lines of a second
\* dataset
BuildRows ==
    { Truncate(Row("a", present), n) : present \in SUBSET UrlCols, n \in {ColTsv, NumCols} }
    \cup { Row("b", {ColTsv, ColCsv, ColSdmx}), Row("b", {ColStructure, ColBrowser}) }

InitBuild == InitWith(Files(BuildRows), {NoRate})

NextBuild ==
    \/ MainParse
    \/ CreateTasks
    \/ Partition

\* parse_tsv, create_download_tasks and the grouping applied to any small manifest
SpecBuild == InitBuild /\ [][NextBuild]_vars

\* the manifest of the rate-limited runs: a header line and one dataset with
\* two downloadable URLs
RateFiles ==
    {[status |-> "ok", records |-> <<HeaderRow, Row("a", {ColTsv, ColCsv})>>]}

InitRate == InitWith(RateFiles, RateLimits)

\* the rate-limited runs: a whole run over a small manifest, every rate limit
SpecRate == InitRate /\ [][Next]_vars

-----------------------------------------------------------------------------
(* Properties.                                                             *)

\* C1: with parallelism N >= 1, at most N transfers are started and have not
\* yet produced their report, in every reachable state.
C1_BoundedConcurrency ==
    parallelism >= 1 => Cardinality(InFlight) <= parallelism

\* C1 witness: N >= 2 transfers are in flight at once while a further task waits
C1_Witness ==
    /\ parallelism >= 2
    /\ Cardinality(InFlight) = parallelism
    /\ \E h \in AllHandles : ~Started(h)

\* C2: no transfer of a later group is started before every transfer of each
\* earlier group has returned its report (Success or Failed), and every
\* transfer of a joined group has returned.
C2_GroupBarrier ==
    /\ \A g1 \in 1..Len(chunks) : \A g2 \in (g1 + 1)..Len(chunks) :
         \A h2 \in Handles(chunks, g2) :
            Started(h2) =>
               \A h1 \in Handles(chunks, g1) :
                  /\ Reported(h1)
                  /\ out[h1].status \in {"Success", "Failed"}
                  /\ xfer[h1].pc = "returned"
    /\ \A g \in 1..Len(chunks) :
         (g < cur) => \A h \in Handles(chunks, g) : xfer[h].pc = "returned"

\* C2 witness: one transfer of the first group has returned, a slower one has
\* not, and the second group is still idle
C2_Witness ==
    /\ Len(chunks) >= 2
    /\ cur = 1
    /\ \E h1, h2 \in Handles(chunks, 1) : Reported(h1) /\ Started(h2) /\ ~Reported(h2)
    /\ \A h \in Handles(chunks, 2) : ~Started(h)

\* C3: the report list is in task-list order: the i-th report is the report of
\* the i-th task's transfer, whatever the completion order; the summary's
\* list is that list, one report per task.
C3_ReportsInTaskOrder ==
    /\ Len(reports) <= Len(tasks)
    /\ \A i \in 1..Len(reports) : reports[i].task = tasks[i] /\ reports[i] = out[i]
    /\ summary # NoSummary =>
          /\ Len(summary.reports) = Len(tasks)
          /\ \A i \in 1..Len(tasks) : summary.reports[i].task = tasks[i]

\* C3 witness: a group was joined whose second transfer returned before its
\* first, and whose two tasks differ
C3_Witness ==
    /\ pc = "loop"
    /\ Len(reports) >= 2
    /\ Len(order) >= 2
    /\ order[1] > order[2]
    /\ reports[order[1]].task # reports[order[2]].task

\* main has ended after download_all ran every group
RunCompleted ==
    /\ pc = "exit"
    /\ result # NoResult
    /\ result.ok
    /\ Len(result.summary.reports) = Len(tasks)
    /\ \A i \in 1..Len(tasks) :
          /\ i \in AllHandles
          /\ Reported(i)
          /\ out[i].status \in {"Success", "Failed"}
          /\ result.summary.reports[i] = out[i]

\* C4 (as claimed): every task of the task list is dispatched, runs to
\* completion or failure and produces exactly one report: when main has ended
\* on a parsed manifest, each task was started and has its one report,
\* Success or Failed, in the report list.
C4_EveryTaskReports ==
    (pc = "exit" /\ parse_err = NoError) =>
        /\ Len(reports) = Len(tasks)
        /\ \A i \in 1..Len(tasks) :
              /\ i \in AllHandles
              /\ Started(i)
              /\ Reported(i)
              /\ out[i].status \in {"Success", "Failed"}
              /\ reports[i] = out[i]

\* C4, the executor's part: a report, once produced, never changes (the status
\* is set once), and the transfer it belongs to takes no further step.
C4_ReportIsFinal ==
    [][\A h \in DOMAIN out : Reported(h) => (out'[h] = out[h] /\ xfer'[h] = xfer[h])]_vars

\* the configurations on which download_all does not panic
NoPanicConfig == parallelism >= 1 /\ rate_limit # SomeRate(0)

\* C4, for a parallelism of at least 1 and a rate limit that is not 0: every
\* task of a parsed manifest is dispatched and reports, given that every
\* pending step eventually returns.
C4_CompletesWhenPositive ==
    (NoPanicConfig /\ pc = "create_tasks") ~> RunCompleted

\* some transfer has failed
SomeFailed == \E h \in AllHandles : Reported(h) /\ out[h].status = "Failed"

\* C5: a failed transfer stops nothing else: in every state in which some
\* transfer has failed (and the process has not panicked), each sibling still
\* in flight can take its next step, the run can go on until every group was
\* dispatched and every task has its report, and download_all has not
\* returned an error.
C5_FailureIsolated ==
    (SomeFailed /\ exit # "panic") =>
        /\ \A h \in InFlight : ENABLED download_file(h)
        /\ RunCompleted \/ ENABLED Next
        /\ result # NoResult => result.ok

\* C5, as a liveness property: once a transfer has failed, the run still
\* completes with a report for every task and Ok from download_all, given
\* that every pending step eventually returns.
C5_FailureLeadsToCompletion == (SomeFailed /\ NoPanicConfig) ~> RunCompleted

\* C5 witness: a run has ended in which the first transfer failed, a sibling of
\* its group succeeded after that, and a later group was dispatched
C5_Witness ==
    /\ RunCompleted
    /\ Len(chunks) >= 2
    /\ Len(chunks[1]) >= 2
    /\ out[1].status = "Failed"
    /\ out[2].status = "Success"
    /\ \E h \in Handles(chunks, 2) : out[h].status = "Success"

\* the sum of f over the set S
RECURSIVE SetSum(_, _)
SetSum(S, f) ==
    IF S = {} THEN 0
    ELSE LET x == CHOOSE y \in S : TRUE IN f[x] + SetSum(S \ {x}, f)

\* C6: the summary download_all returns agrees with its report list: as many
\* reports as tasks, the success and failure counts are the numbers of Success
\* and Failed reports and add up to the total, and the byte total is the sum
\* of the reports' bytes.
C6_SummaryConsistent ==
    (result # NoResult /\ result.ok) =>
        LET sm == result.summary
            rs == sm.reports
            I  == 1..Len(rs)
        IN  /\ sm.total_downloads = Len(rs)
            /\ Len(rs) = Len(tasks)
            /\ sm.successful_downloads = Cardinality({i \in I : rs[i].status = "Success"})
            /\ sm.failed_downloads = Cardinality({i \in I : rs[i].status = "Failed"})
            /\ sm.successful_downloads + sm.failed_downloads = sm.total_downloads
            /\ sm.total_bytes_downloaded = SetSum(I, [i \in I |-> rs[i].bytes_downloaded])
            /\ sm.total_bytes_downloaded = SetSum(I, [i \in I |-> xfer[i].downloaded])

\* C6 witness: a returned summary with a successful report and a failed one
\* that had already written bytes
C6_Witness ==
    /\ result # NoResult
    /\ result.ok
    /\ result.summary.successful_downloads >= 1
    /\ \E i \in 1..Len(result.summary.reports) :
          /\ result.summary.reports[i].status = "Failed"
          /\ result.summary.reports[i].bytes_downloaded > 0

\* create_download_tasks has run
TasksBuilt == parse_err = NoError /\ pc \notin {"parse", "create_tasks"}

Formats == <<"TSV", "CSV", "SDMX">>

\* the entry's URL for the k-th downloadable format
DownloadUrl(entry, k) ==
    CASE k = 1 -> entry.tsv_url
      [] k = 2 -> entry.csv_url
      [] k = 3 -> entry.sdmx_url

\* the (entry, format) pairs of the manifest that carry a URL
PresentUrls(inv) ==
    {p \in (1..Len(inv)) \X (1..3) : DownloadUrl(inv[p[1]], p[2]) # NoUrl}

\* entry order, then TSV before CSV before SDMX
Before(p, q) == p[1] < q[1] \/ (p[1] = q[1] /\ p[2] < q[2])

\* C7: the task list has one task per present URL among tsv_url, csv_url and
\* sdmx_url (its length is the sum over the entries of their present URLs), in
\* entry order and within an entry in the order TSV, CSV, SDMX; an entry
\* without such a URL gives no task; structure_url and browser_url give none.
C7_OneTaskPerDownloadUrl ==
    TasksBuilt =>
        LET P == PresentUrls(inventory)
            E == 1..Len(inventory)
            n == [i \in E |-> Cardinality({k \in 1..3 : DownloadUrl(inventory[i], k) # NoUrl})]
        IN  /\ Len(tasks) = SetSum(E, n)
            /\ \A p \in P :
                 LET pos == 1 + Cardinality({q \in P : Before(q, p)})
                 IN  /\ pos \in 1..Len(tasks)
                     /\ tasks[pos].entry = inventory[p[1]]
                     /\ tasks[pos].format = Formats[p[2]]
                     /\ tasks[pos].url = DownloadUrl(inventory[p[1]], p[2])
            /\ \A i \in 1..Len(tasks) :
                 tasks[i].url \notin {tasks[i].entry.structure_url,
                                      tasks[i].entry.browser_url}

\* C7 witness: a manifest whose first entry has only the informational URLs
\* and whose second has all three downloadable ones gave three tasks
C7_Witness ==
    /\ TasksBuilt
    /\ Len(inventory) >= 2
    /\ \A k \in 1..3 : DownloadUrl(inventory[1], k) = NoUrl
    /\ inventory[1].structure_url # NoUrl
    /\ inventory[1].browser_url # NoUrl
    /\ \A k \in 1..3 : DownloadUrl(inventory[2], k) # NoUrl
    /\ Len(tasks) >= 3
    /\ \A k \in 1..3 : tasks[k].format = Formats[k]

\* C8: the process exits with success only when every task has a Success
\* report; it exits with an error when the manifest did not parse, when
\* download_all returned an error, and when some report is Failed (an exit by
\* panic is an exit with an error status as well).
C8_ExitStatus ==
    pc = "exit" =>
        /\ exit \in {"ok", "err", "panic"}
        /\ exit = "ok" =>
              /\ RunCompleted
              /\ \A i \in 1..Len(tasks) : out[i].status = "Success"
        /\ parse_err # NoError => exit = "err"
        /\ (result # NoResult /\ ~result.ok) => exit = "err"
        /\ (\E i \in 1..Len(reports) : reports[i].status = "Failed") =>
              exit \in {"err", "panic"}

\* C8 witness: the process exited with an error after a run in which one
\* download succeeded and another failed
C8_Witness ==
    /\ pc = "exit"
    /\ exit = "err"
    /\ \E i, j \in 1..Len(reports) :
          reports[i].status = "Success" /\ reports[j].status = "Failed"

\* C9: when parse_tsv returns an error nothing is downloaded: no task is
\* built, no request is sent, no statistics are written, download_all is not
\* entered, and main ends with an error.
C9_ParseFailureAborts ==
    ~parse_tsv(file).ok =>
        /\ tasks = <<>>
        /\ chunks = <<>>
        /\ xfer = <<>>
        /\ reports = <<>>
        /\ summary = NoSummary
        /\ stats = "none"
        /\ result = NoResult
        /\ pc \in {"parse", "exit"}
        /\ pc = "exit" => (exit = "err" /\ parse_err # NoError)

\* C9 witness: main has ended on a manifest whose second line is a good record
\* with a URL and whose third line is malformed
C9_Witness ==
    /\ pc = "exit"
    /\ parse_err = "ParseError"
    /\ Len(file.records) >= 3
    /\ Len(file.records[2]) = Len(file.records[1])
    /\ Field(file.records[2], ColTsv) # ""
    /\ Len(file.records[3]) # Len(file.records[1])

\* C10: when write_stats_csv fails, download_all still returns Ok with the
\* summary of the reports, the one it returns when the write succeeds, and
\* the exit status is decided by the failed downloads alone.
C10_StatsFailureSwallowed ==
    stats \in {"IoError", "CsvError"} =>
        /\ result = [ok |-> TRUE, summary |-> summary]
        /\ summary = Summarize(reports)
        /\ pc = "exit" =>
              exit = (IF \E i \in 1..Len(reports) : reports[i].status = "Failed"
                      THEN "err" ELSE "ok")

\* C10 witness: the statistics could not be written, every download had
\* succeeded, and the process exited with success
C10_Witness ==
    /\ pc = "exit"
    /\ stats = "CsvError"
    /\ Len(reports) >= 1
    /\ exit = "ok"


\* the bytes transfer h wrote that are in some file now
BytesOf(h) ==
    {<<p, i>> \in UNION {{p} \X (1..Len(fs.files[p])) : p \in DOMAIN fs.files} :
        fs.files[p][i][1] = h}

\* the server answered transfer h with a status that is not 2xx
RefusedByServer(h) ==
    xfer[h].http # 0 /\ ~(200 <= xfer[h].http /\ xfer[h].http < 300)

\* C11: a transfer whose GET is answered with a non-2xx status fails at once:
\* its report is Failed, the error text carries the status code and the URL,
\* bytes_downloaded is 0; the body is never read and the transfer writes
\* nothing to its destination file.
C11_HttpErrorFailsAtOnce ==
    \A h \in AllHandles :
        RefusedByServer(h) =>
            /\ Reported(h)
            /\ out[h].status = "Failed"
            /\ out[h].error.kind = "DownloadError"
            /\ out[h].error.status = xfer[h].http
            /\ out[h].error.url = TaskOf(chunks, h).url
            /\ out[h].bytes_downloaded = 0
            /\ xfer[h].received = 0
            /\ xfer[h].pos = 0
            /\ BytesOf(h) = {}

\* a refused transfer has reported while the file at its destination path
\* holds the bytes of a sibling with the same path
C11_Witness ==
    \E h, k \in AllHandles :
        /\ h # k
        /\ RefusedByServer(h)
        /\ Reported(h)
        /\ TaskOf(chunks, h).output_path = TaskOf(chunks, k).output_path
        /\ BytesOf(k) # {}

\* C12: in every report an error text is present exactly when the status is
\* Failed (and absent exactly when it is Success).
C12_ErrorIffFailed ==
    /\ \A h \in AllHandles :
          Reported(h) =>
              /\ out[h].status \in {"Success", "Failed"}
              /\ out[h].error # NoTaskError <=> out[h].status = "Failed"
    /\ \A k \in 1..Len(reports) :
          reports[k].error # NoTaskError <=> reports[k].status = "Failed"

\* the joined reports hold a Success and a Failed one
C12_Witness ==
    \E j, k \in 1..Len(reports) :
        /\ reports[j].status = "Success" /\ reports[j].error = NoTaskError
        /\ reports[k].status = "Failed" /\ reports[k].error = IoError

\* the manifest was read without an error
Parsed == pc # "parse" /\ parse_err = NoError

\* the fields of the data records (every record after the first) in the
\* download-URL columns that are filled
FilledUrlFields ==
    {<<r, c>> \in (2..Len(file.records)) \X {ColTsv, ColCsv, ColSdmx} :
        c <= Len(file.records[r]) /\ file.records[r][c] # ""}

\* C13: every task of the task list carries a non-empty URL: a URL field that
\* is empty or missing in the manifest gives no task, so the tasks are as many
\* as the filled download-URL fields and each carries the text of one.
C13_TaskUrlNonEmpty ==
    TasksBuilt =>
        /\ \A k \in 1..Len(tasks) :
              /\ tasks[k].url # ""
              /\ tasks[k].url # NoUrl
              /\ \E <<r, c>> \in FilledUrlFields : tasks[k].url = file.records[r][c]
        /\ Len(tasks) = Cardinality(FilledUrlFields)

\* two data lines without the CSV and SDMX columns, the TSV field of one of
\* them empty: one task
C13_Witness ==
    /\ TasksBuilt
    /\ Len(file.records) = 3
    /\ \A r \in 2..3 : Len(file.records[r]) = ColTsv
    /\ \E r \in 2..3 : file.records[r][ColTsv] = ""
    /\ Len(tasks) = 1

\* C14: the parallelism download_all works with is at least 1 for every
\* configuration the command line accepts: the grouping step gets a positive
\* group size and completes.
C14_PositiveParallelism ==
    TasksBuilt /\ pc # "partition" => parallelism >= 1 /\ cur >= 1

\* C15, as stated: no header row is skipped, the entries are as many as the
\* records of the file, the first one included.
C15_NoHeaderSkipped ==
    Parsed => Len(inventory) = Len(file.records)

\* C15, amended: the first record is skipped as a header row: the entries are
\* as many as the records after the first, and entry k is decoded from record
\* k + 1, a missing or empty URL field giving an absent URL.
C15_HeaderSkipped ==
    Parsed =>
        /\ Len(inventory) = (IF file.records = <<>> THEN 0 ELSE Len(file.records) - 1)
        /\ \A k \in 1..Len(inventory) :
              LET record == file.records[k + 1]
                  url(c) == IF c <= Len(record) /\ record[c] # ""
                            THEN record[c] ELSE NoUrl
              IN  /\ inventory[k].code = record[ColCode]
                  /\ inventory[k].entry_type = record[ColType]
                  /\ inventory[k].tsv_url = url(ColTsv)
                  /\ inventory[k].csv_url = url(ColCsv)
                  /\ inventory[k].sdmx_url = url(ColSdmx)
                  /\ inventory[k].structure_url = url(ColStructure)
                  /\ inventory[k].browser_url = url(ColBrowser)

\* a manifest whose first line is a data line of dataset "a" was read: the
\* entries are those of the two lines after it
C15_Witness ==
    /\ Parsed
    /\ Len(file.records) = 3
    /\ file.records[1][ColCode] = "a"
    /\ file.records[1][ColTsv] # ""
    /\ Len(inventory) = 2
    /\ \A k \in 1..2 : inventory[k].code = "b"

\* the groups one after the other
RECURSIVE Flatten(_)
Flatten(cs) == IF cs = <<>> THEN <<>> ELSE Head(cs) \o Flatten(Tail(cs))

\* C16: the grouping step cuts the task list into consecutive groups: in
\* order they make up the task list again, every group has between 1 and
\* `parallelism` tasks, every group but the last has exactly `parallelism`,
\* and an empty task list gives no group.
C16_ConsecutiveGroups ==
    cur >= 1 =>
        /\ Flatten(chunks) = tasks
        /\ \A g \in 1..Len(chunks) :
              /\ 1 <= Len(chunks[g]) /\ Len(chunks[g]) <= parallelism
              /\ g < Len(chunks) => Len(chunks[g]) = parallelism
              /\ \A i \in 1..Len(chunks[g]) :
                    chunks[g][i] = tasks[(g - 1) * parallelism + i]
        /\ tasks = <<>> => chunks = <<>>

\* five tasks were cut with parallelism 2 into groups of 2, 2 and 1
C16_Witness ==
    /\ cur >= 1
    /\ Len(tasks) = 5
    /\ parallelism = 2
    /\ [g \in 1..Len(chunks) |-> Len(chunks[g])] = <<2, 2, 1>>

\* the destination path of transfer h (the futures are created in task order)
PathOf(h) == tasks[h].output_path

\* the number of the group transfer h runs in
GroupNo(h) == (h - 1) \div parallelism + 1

\* no other task has the destination path of h
SoleWriter(h) == \A k \in AllHandles : k # h => PathOf(k) # PathOf(h)

\* the first n bytes of the response body of h, in arrival order
Body(h, n) == [i \in 1..n |-> <<h, i>>]

\* C17, in a state: the counter of a transfer is the number of bytes its handle
\* has written, never more than it received; the file of a task that has its
\* path to itself holds exactly the chunks written, in arrival order, their
\* total size being the counter; a report carries the counter's final value.
C17_CounterIsBytesWritten ==
    \A h \in AllHandles :
        /\ xfer[h].downloaded = xfer[h].pos
        /\ xfer[h].downloaded <= xfer[h].rx_bytes
        /\ SoleWriter(h) =>
              IF Exists(fs, PathOf(h))
              THEN fs.files[PathOf(h)] = Body(h, xfer[h].downloaded)
              ELSE xfer[h].downloaded = 0
        /\ Reported(h) => out[h].bytes_downloaded = xfer[h].downloaded

\* C17, in a step: the counter never decreases, and it grows only in a step
\* that writes as many bytes through the transfer's handle.
C17_CounterGrowsWithWrites ==
    \A h \in AllHandles :
        h \in DOMAIN xfer' =>
            /\ xfer'[h].downloaded >= xfer[h].downloaded
            /\ xfer'[h].downloaded - xfer[h].downloaded = xfer'[h].pos - xfer[h].pos

Collided(h, k) ==
    /\ h # k
    /\ Reported(h)
    /\ Reported(k)
    /\ PathOf(h) = PathOf(k)

\* C18, as stated: when two tasks with the same destination path have both
\* finished with success, the file holds exactly the complete body of one of
\* them, also when they ran in the same group.
C18_LastWriteWins ==
    \A h, k \in AllHandles :
        (Collided(h, k) /\ out[h].status = "Success" /\ out[k].status = "Success") =>
            \/ fs.files[PathOf(h)] = Body(h, out[h].bytes_downloaded)
            \/ fs.files[PathOf(h)] = Body(k, out[k].bytes_downloaded)

\* the other transfers with the destination path of k
Sharers(k) == {h \in AllHandles \ {k} : PathOf(h) = PathOf(k)}

\* C18, amended: tasks with the same destination path are all run, each
\* truncating the file when it opens it and writing at its own offset. When a
\* task runs in a later group than every other task of its path and opens the
\* file, the file holds, once it has finished, exactly what it wrote (its
\* complete body when it succeeded). When tasks of one path run in the same
\* group the file holds, at each offset, a byte one of them wrote at that
\* offset, or a gap.
C18_LastCreateWins ==
    \A k \in AllHandles :
        Sharers(k) # {} =>
            /\ ( /\ Reported(k)
                 /\ \A h \in Sharers(k) : GroupNo(h) < GroupNo(k)
                 /\ (out[k].status = "Success" \/ xfer[k].pos > 0) ) =>
                    fs.files[PathOf(k)] = Body(k, out[k].bytes_downloaded)
            /\ Exists(fs, PathOf(k)) =>
                    \A i \in 1..Len(fs.files[PathOf(k)]) :
                        LET byte == fs.files[PathOf(k)][i]
                        IN  \/ byte = Hole
                            \/ byte[2] = i /\ byte[1] \in Sharers(k) \cup {k}

\* two tasks of one group with the same path have both succeeded, and the
\* file holds bytes of both, the complete body of neither
C18_Witness ==
    \E h, k \in AllHandles :
        /\ Collided(h, k)
        /\ GroupNo(h) = GroupNo(k)
        /\ out[h].status = "Success"
        /\ out[k].status = "Success"
        /\ BytesOf(h) # {}
        /\ BytesOf(k) # {}

\* |a - b| <= d
Within(a, b, d) == a - b <= d /\ b - a <= d

\* bytes / rate seconds in nanoseconds, cut to a whole nanosecond
NanosFor(bytes, rate) ==
    bytes * (NanosPerSec \div rate) + (bytes * (NanosPerSec % rate)) \div rate

\* C19: with a rate limit set, every chunk received costs exactly one sleep,
\* of chunk size / rate seconds, taken before the chunk is written, so the
\* sleeps of a transfer add up to bytes received / rate seconds (to the
\* nanosecond, per chunk); without a rate limit there is no sleep.
C19_OneSleepPerChunk ==
    \A h \in AllHandles :
        IF rate_limit.some
        THEN /\ xfer[h].sleeps = xfer[h].received
             /\ xfer[h].nchunks <= xfer[h].sleeps
             /\ rate_limit.v > 0 =>
                   Within(xfer[h].delay_ns, NanosFor(xfer[h].rx_bytes, rate_limit.v),
                          xfer[h].received)
        ELSE xfer[h].sleeps = 0 /\ xfer[h].delay_ns = 0

\* C19, for a rate limit that is not 0: the claim as stated.
C19_PositiveRate == rate_limit # SomeRate(0) => C19_OneSleepPerChunk

\* C20: File::create never makes the output directory, write_stats_csv does,
\* after the last group was joined. While the directory is missing it holds
\* no file, and a transfer answered with 2xx fails at File::create with an
\* I/O error and 0 bytes; once the run has made the directory (and the
\* statistics file in it), every task has its report.
C20_DirectoryMadeByStatsStep ==
    /\ ~fs.dir =>
          /\ DOMAIN fs.files = {}
          /\ ~fs.made
          /\ stats # "written"
          /\ \A h \in AllHandles :
                (xfer[h].http # 0 /\ ~RefusedByServer(h)) =>
                    \/ xfer[h].pc = "create"
                    \/ /\ Reported(h)
                       /\ out[h].status = "Failed"
                       /\ out[h].error = IoError
                       /\ out[h].bytes_downloaded = 0
    /\ fs.made =>
          /\ pc \in {"returned", "exit"}
          /\ stats # "none"
          /\ Len(reports) = Len(tasks)
          /\ \A h \in AllHandles :
                /\ Reported(h)
                /\ (xfer[h].http # 0 /\ ~RefusedByServer(h)) =>
                      /\ out[h].status = "Failed"
                      /\ out[h].error = IoError
                      /\ out[h].bytes_downloaded = 0

\* the statistics step made the missing directory and wrote the statistics
\* after a run in which a task got a 2xx response and failed at File::create
C20_Witness ==
    /\ fs.made
    /\ stats = "written"
    /\ \E h \in AllHandles :
          /\ xfer[h].http = 200
          /\ out[h].error = IoError
          /\ out[h].bytes_downloaded = 0
=============================================================================
